---- MODULE Spec2Model ----
(***************************************************************************)
(* Reminder app (src/streamlit_app.py): the reminder collection held in    *)
(* the session, its JSON file, and the script run that evaluates, renders  *)
(* and handles one widget event.  Timestamps are counted in ticks,         *)
(* TicksPerSecond ticks to the second, so that a datetime has a sub-second *)
(* part as Python's has microseconds.                                      *)
(***************************************************************************)
EXTENDS Integers, Sequences, FiniteSets, TLC

\* ---------------------------------------------------------------- bounds
MaxReminders == 2
MaxClockSeconds == 11
MaxValue == 1
MaxCommands == 3
MaxSessions == 1
MaxFaults == 1
TicksPerSecond == 2
MaxLongValue == 2
MaxDeltaSeconds == 3700
MaxDeltaDays == 1
MaxPauseTicks == 3
MaxSleptTicks == 2

\* ------------------------------------------------------- program constants
STATUS_PENDING == "pending"
STATUS_DUE == "due"
STATUS_DISMISSED == "dismissed"
STATUS_COMPLETED == "completed"
REFRESH_INTERVAL_SECONDS == 5
None == -1

\* The empty string, which a loaded completed_at can be (line 92 leaves it
\* as it is).  A datetime is a number of ticks, 0 or more.
EmptyStr == -2

\* isinstance(v, datetime.datetime)
IsDatetime(v) == v >= 0

\* bool(v): None and '' are false, every datetime is true.
Truthy(v) == v # None /\ v # EmptyStr

MaxClock == MaxClockSeconds * TicksPerSecond

Units == {"seconds", "minutes", "hours", "days"}
FormUnits == {"seconds"}
SubmitTasks == {"", "milk"}

\* ------------------------------------------------------------- TimeMath
SecondsPerUnit(unit) ==
    CASE unit = "seconds" -> 1
      [] unit = "minutes" -> 60
      [] unit = "hours" -> 3600
      [] unit = "days" -> 86400
      [] OTHER -> 0

\* calculate_due_time: now is the clock it reads at line 18.
calculate_due_time(now, value, unit) ==
    IF unit \in Units
    THEN [due_time |-> now + value * SecondsPerUnit(unit) * TicksPerSecond,
          error |-> FALSE]
    ELSE [due_time |-> now, error |-> TRUE]

\* ---------------------------------------------------------- time display
\* divmod of lines 36-38 and 48-50 on a number of ticks: whole days, hours
\* and minutes, and the seconds left over, still in ticks (secs is a float).
dhms(ticks) ==
    LET rem1 == ticks % (86400 * TicksPerSecond)
        rem2 == rem1 % (3600 * TicksPerSecond)
    IN [days |-> ticks \div (86400 * TicksPerSecond),
        hours |-> rem1 \div (3600 * TicksPerSecond),
        minutes |-> rem2 \div (60 * TicksPerSecond),
        secs |-> rem2 % (60 * TicksPerSecond)]

\* f"{int(x)}d" and the like: one component of the text.
Part(n, letter) == [n |-> n, letter |-> letter]

dhm_parts(c) ==
    (IF c.days > 0 THEN <<Part(c.days, "d")>> ELSE <<>>)
    \o (IF c.hours > 0 THEN <<Part(c.hours, "h")>> ELSE <<>>)
    \o (IF c.minutes > 0 THEN <<Part(c.minutes, "m")>> ELSE <<>>)

\* Lines 40-44: the components shown for a delta that is not positive.
overdue_parts(abs_ticks) ==
    LET c == dhms(abs_ticks)
        parts == dhm_parts(c)
    IN IF c.secs > 0 \/ parts = <<>>
       THEN Append(parts, Part(c.secs \div TicksPerSecond, "s"))
       ELSE parts

\* Lines 52-57: the components shown for a positive delta.
remaining_parts(ticks) ==
    LET c == dhms(ticks)
        parts == dhm_parts(c)
    IN IF parts = <<>> \/ (c.days = 0 /\ c.hours = 0 /\ c.minutes = 0)
       THEN Append(parts, Part(c.secs \div TicksPerSecond, "s"))
       ELSE parts

\* " ".join(parts)
RECURSIVE join(_)
join(parts) ==
    IF parts = <<>> THEN ""
    ELSE LET head == ToString(parts[1].n) \o parts[1].letter
         IN IF Len(parts) = 1 THEN head ELSE head \o " " \o join(Tail(parts))

\* format_timedelta_dhms: delta is a timedelta, in ticks.
format_timedelta_dhms(delta) ==
    IF delta <= 0
    THEN LET abs_ticks == IF delta < 0 THEN 0 - delta ELSE delta
             parts == overdue_parts(abs_ticks)
         IN IF abs_ticks > 0
            THEN "Overdue by " \o (IF parts # <<>> THEN join(parts) ELSE "0s") \o "!"
            ELSE "Due NOW!"
    ELSE join(remaining_parts(delta))

\* ------------------------------------------------------- JSON text model
\* A JSON value standing where a timestamp is expected: null, or a string
\* that is ISO-8601 text (seconds, and the fraction when it was printed),
\* or is not and has characters, or is the empty string.
JNull == [t |-> "null", valid |-> TRUE, empty |-> FALSE, sec |-> 0, frac |-> <<>>]
NotIso == [t |-> "str", valid |-> FALSE, empty |-> FALSE, sec |-> 0, frac |-> <<>>]
JEmptyStr == [t |-> "str", valid |-> FALSE, empty |-> TRUE, sec |-> 0, frac |-> <<>>]

\* A timestamp written to the second, as strftime('%Y-%m-%dT%H:%M:%S')
\* would: the fraction is never printed.
IsoformatWholeSeconds(dt) ==
    [t |-> "str", valid |-> TRUE, empty |-> FALSE, sec |-> dt \div TicksPerSecond,
     frac |-> <<>>]

\* datetime.isoformat(): the fraction is printed only when it is not zero.
isoformat(dt) ==
    [t |-> "str", valid |-> TRUE, empty |-> FALSE, sec |-> dt \div TicksPerSecond,
     frac |-> IF dt % TicksPerSecond = 0 THEN <<>> ELSE <<dt % TicksPerSecond>>]

\* datetime.fromisoformat() of valid ISO text.
fromisoformat(s) ==
    s.sec * TicksPerSecond + (IF s.frac = <<>> THEN 0 ELSE s.frac[1])

\* bool(j) of a loaded value: null and "" are false.
JTruthy(j) == j.t = "str" /\ ~j.empty

\* json.dump of a field that is not a datetime: None is written as null
\* and '' as "".
Kept(v) == IF v = EmptyStr THEN JEmptyStr ELSE JNull

\* What json.load gives for a field that fromisoformat is not called on.
Loaded(j) == IF j.t = "str" /\ j.empty THEN EmptyStr ELSE None

\* Lines 66-71: one reminder as written to the file.  Only a datetime is
\* converted (for completed_at, a true value that is a datetime); any
\* other value is written as it is.
SerializeReminder(r) ==
    [obj |-> TRUE, id |-> r.id, task |-> r.task,
     due_time |-> IF IsDatetime(r.due_time) THEN isoformat(r.due_time)
                  ELSE Kept(r.due_time),
     created_at |-> IF IsDatetime(r.created_at) THEN isoformat(r.created_at)
                    ELSE Kept(r.created_at),
     status |-> r.status,
     completed_at |-> IF Truthy(r.completed_at) /\ IsDatetime(r.completed_at)
                      THEN isoformat(r.completed_at)
                      ELSE Kept(r.completed_at)]

\* Lines 89-94: one loaded object as a reminder.  Only a string is
\* converted (for completed_at, a string that is not empty, by the test of
\* line 92); a null stays None and an empty completed_at stays ''.
DeserializeReminder(o) ==
    [id |-> o.id, task |-> o.task,
     due_time |-> IF o.due_time.t = "str" THEN fromisoformat(o.due_time)
                  ELSE Loaded(o.due_time),
     created_at |-> IF o.created_at.t = "str" THEN fromisoformat(o.created_at)
                    ELSE Loaded(o.created_at),
     status |-> o.status,
     completed_at |-> IF JTruthy(o.completed_at) /\ o.completed_at.t = "str"
                      THEN fromisoformat(o.completed_at)
                      ELSE Loaded(o.completed_at)]

\* The file: absent, or text that is a whole JSON document or a cut one.
AbsentFile == [exists |-> FALSE, complete |-> TRUE, shape |-> "array", items |-> <<>>]

\* json.dump of the whole list (line 75), all of it written.
json_dump(reminders_list) ==
    [exists |-> TRUE, complete |-> TRUE, shape |-> "array",
     items |-> [i \in 1..Len(reminders_list) |-> SerializeReminder(reminders_list[i])]]

\* The file after open(..., 'w') truncated it and the write stopped part-way.
PartialDump(reminders_list) ==
    [exists |-> TRUE, complete |-> FALSE, shape |-> "array",
     items |-> [i \in 1..(IF Len(reminders_list) = 0 THEN 0 ELSE Len(reminders_list) - 1)
                  |-> SerializeReminder(reminders_list[i])]]

SaveOutcomes == {"ok", "open_fails", "write_fails", "killed"}

\* save_reminders_to_file with "except IOError: pass": a failed write is
\* not reported.
SaveSwallowsError(d, reminders_list, w) ==
    CASE w = "ok" -> [disk |-> json_dump(reminders_list), error |-> FALSE]
      [] w = "open_fails" -> [disk |-> d, error |-> FALSE]
      [] OTHER -> [disk |-> PartialDump(reminders_list), error |-> FALSE]

\* save_reminders_to_file.  w is what the file system does: the write goes
\* through, open raises IOError, the write raises IOError after the file
\* was truncated, or the process is stopped in the middle of the write.
save_reminders_to_file(d, reminders_list, w) ==
    CASE w = "ok" -> [disk |-> json_dump(reminders_list), error |-> FALSE]
      [] w = "open_fails" -> [disk |-> d, error |-> TRUE]
      [] w = "write_fails" -> [disk |-> PartialDump(reminders_list), error |-> TRUE]
      [] OTHER -> [disk |-> PartialDump(reminders_list), error |-> FALSE]

\* datetime.fromisoformat(s) raises ValueError: s is a string that is not
\* ISO text (the empty string is not).
FromisoformatRaises(j) == j.t = "str" /\ ~j.valid

\* The exception raised by lines 89-93 for one element of the loaded
\* array.  An element that is not an object has no copy() or no get();
\* fromisoformat is called on a due_time or created_at that is a string,
\* and on a completed_at that is true and a string.
ItemException(o) ==
    IF ~o.obj THEN "AttributeError"
    ELSE IF \/ FromisoformatRaises(o.due_time)
            \/ FromisoformatRaises(o.created_at)
            \/ (JTruthy(o.completed_at) /\ FromisoformatRaises(o.completed_at))
         THEN "ValueError"
         ELSE "none"

\* What json.load returned, as the loop of line 88 sees it: an array; a
\* scalar (number, true, false, null), which cannot be iterated; an object
\* with no member or the empty string, iterated with no element; an object
\* with members or a string with characters, whose elements are strings.
Shapes == {"array", "scalar", "no_elements", "str_elements"}

\* The exception raised inside the try of load_reminders_from_file.
LoadException(d, rd) ==
    IF rd = "ioerror" THEN "IOError"
    ELSE IF ~d.complete THEN "JSONDecodeError"
    ELSE IF d.shape = "scalar" THEN "TypeError"
    ELSE IF d.shape = "no_elements" THEN "none"
    ELSE IF d.shape = "str_elements" THEN "AttributeError"
    ELSE LET bad == {i \in 1..Len(d.items) : ItemException(d.items[i]) # "none"}
         IN IF bad = {} THEN "none"
            ELSE ItemException(d.items[CHOOSE i \in bad : \A j \in bad : i <= j])

\* Line 96: except (IOError, json.JSONDecodeError).
CaughtByLoad == {"IOError", "JSONDecodeError"}

\* load_reminders_from_file.  rd is what reading does: "ok" or "ioerror".
load_reminders_from_file(d, rd) ==
    IF ~d.exists
    THEN [reminders |-> <<>>, error |-> FALSE, raised |-> "none"]
    ELSE LET exc == LoadException(d, rd) IN
         IF exc = "none"
         THEN [reminders |-> [i \in 1..Len(d.items) |-> DeserializeReminder(d.items[i])],
               error |-> FALSE, raised |-> "none"]
         ELSE IF exc \in CaughtByLoad
         THEN [reminders |-> <<>>, error |-> TRUE, raised |-> "none"]
         ELSE [reminders |-> <<>>, error |-> FALSE, raised |-> exc]

\* --------------------------------------------------------- the collection
\* Lines 121-128: the reminder the add handler builds.
new_reminder(id, task, due_time, created_at) ==
    [id |-> id, task |-> task, due_time |-> due_time, created_at |-> created_at,
     status |-> STATUS_PENDING, completed_at |-> None]

\* uuid4 (line 122): an id no reminder of the collection has.
NewId(rems) == Len(rems) + 1

\* Line 168.
mark_due(rems, k) == [rems EXCEPT ![k].status = STATUS_DUE]

\* Lines 197-198.
complete(rems, k, now) ==
    [rems EXCEPT ![k].status = STATUS_COMPLETED, ![k].completed_at = now]

\* A dismiss that takes the reminder out of the collection.
DismissRemoves(rems, k) ==
    [i \in 1..(Len(rems) - 1) |-> IF i < k THEN rems[i] ELSE rems[i + 1]]

\* Line 211, the active list's dismiss button.
dismiss(rems, k) == [rems EXCEPT ![k].status = STATUS_DISMISSED]

\* Line 253, the completed list's dismiss button.
dismiss_completed(rems, k) == [rems EXCEPT ![k].status = STATUS_DISMISSED]

\* Lines 239-240.
uncomplete(rems, k) ==
    [rems EXCEPT ![k].status = STATUS_PENDING, ![k].completed_at = None]

\* ----------------------------------------------------------------- view
\* Lines 146-152 without the test of line 147: dismissed reminders are
\* listed as active.
PendingDueKeepsDismissed(rems) ==
    SelectSeq([i \in 1..Len(rems) |-> i],
              LAMBDA i : rems[i].status # STATUS_COMPLETED)

\* Lines 146-152: the positions of the reminders put in each list, in
\* collection order.
pending_due_reminders(rems) ==
    SelectSeq([i \in 1..Len(rems) |-> i],
              LAMBDA i : rems[i].status # STATUS_DISMISSED
                         /\ rems[i].status # STATUS_COMPLETED)

completed_reminders_list(rems) ==
    SelectSeq([i \in 1..Len(rems) |-> i],
              LAMBDA i : rems[i].status # STATUS_DISMISSED
                         /\ rems[i].status = STATUS_COMPLETED)

\* sorted(): a stable sort of positions by key, ascending, or descending
\* with reverse=True (equal keys keep their order either way).
RECURSIVE sorted(_, _, _)
sorted(idxs, key, reverse) ==
    IF idxs = <<>> THEN <<>>
    ELSE LET n == Len(idxs)
             s == sorted(SubSeq(idxs, 1, n - 1), key, reverse)
             x == idxs[n]
             first == {j \in 1..Len(s) :
                          IF reverse THEN key[s[j]] >= key[x] ELSE key[s[j]] <= key[x]}
             c == Cardinality(first)
         IN SubSeq(s, 1, c) \o <<x>> \o SubSeq(s, c + 1, Len(s))

\* The active list left in the order of the classification loop.
ActiveUnsorted(rems) == pending_due_reminders(rems)

\* sorted() compares the keys of a list of two or more: a key that is None
\* makes the comparison raise TypeError.
SortRaises(idxs, key) ==
    Len(idxs) >= 2 /\ \E j \in 1..Len(idxs) : key[idxs[j]] = None

\* The exception raised by lines 155-156.
SortException(rems) ==
    IF \/ SortRaises(pending_due_reminders(rems),
                     [i \in 1..Len(rems) |-> rems[i].due_time])
       \/ SortRaises(completed_reminders_list(rems),
                     [i \in 1..Len(rems) |->
                         IF Truthy(rems[i].completed_at) THEN rems[i].completed_at
                         ELSE rems[i].created_at])
    THEN "TypeError" ELSE "none"

\* Line 155.
sorted_active_reminders(rems) ==
    sorted(pending_due_reminders(rems),
           [i \in 1..Len(rems) |-> rems[i].due_time], FALSE)

\* Line 156: key is completed_at, or created_at when that is None or ''.
sorted_completed_reminders(rems) ==
    sorted(completed_reminders_list(rems),
           [i \in 1..Len(rems) |-> IF Truthy(rems[i].completed_at)
                                   THEN rems[i].completed_at
                                   ELSE rems[i].created_at], TRUE)

\* Line 264.
active_reminders_exist(rems) ==
    \E i \in 1..Len(rems) : rems[i].status \in {STATUS_PENDING, STATUS_DUE}

\* Line 167 without its test of the status.
IsDueIgnoringStatus(r, current_time) ==
    r.due_time - current_time <= 0

\* Line 167 without its test of the time left.
IsDueWhateverTheTime(r, current_time) ==
    r.status = STATUS_PENDING

\* Line 167: the test of the pending -> due transition.
is_due_now(r, current_time) ==
    r.due_time - current_time <= 0 /\ r.status = STATUS_PENDING

\* ---------------------------------------------------------------- state
VARIABLES
    clock,      \* datetime.datetime.now(), in ticks
    disk,       \* REMINDERS_FILE
    reminders,  \* st.session_state.reminders
    loaded,     \* st.session_state.data_loaded_from_file
    pc,         \* where the script run is
    run,        \* the locals of the run: current_time, the two lists, ...
    session,    \* how many times the session was started again
    cmds,       \* widget events handled so far
    crossed,    \* pending -> due transitions made so far
    toasted,    \* "is due!" toasts shown so far (line 262)
    saveLog,    \* the call of save_reminders_to_file in the last step, if any
    loadLog,    \* the call of load_reminders_from_file in the last step, if any
    writeFailed, \* a save of this session failed
    faults,     \* file-system failures so far
    lastAdd,    \* the add handler's run in the last step, if any
    lastPass,   \* the last run that went through both lists with no widget event
    lastCmd,    \* the widget event the run before this one handled, if any
    rendered    \* time_left and time_display of the reminder drawn in the last step

vars == <<clock, disk, reminders, loaded, pc, run, session, cmds, crossed,
          toasted, saveLog, loadLog, writeFailed, faults, lastAdd, lastPass,
          lastCmd, rendered>>

NoCmd == [kind |-> "none", id |-> 0]
NoRun == [now |-> 0, active |-> <<>>, completed |-> <<>>, i |-> 0,
          notes |-> <<>>, cmd |-> NoCmd]
NoSave == [outcome |-> "none", before |-> AbsentFile, arg |-> <<>>, error |-> FALSE]
NoLoad == [outcome |-> "none", file |-> AbsentFile]
NoAdd == [value |-> 0, unit |-> "none", before |-> <<>>, unitError |-> FALSE]
NoDisplay == [time_left |-> 0, time_display |-> ""]
NoPass == [valid |-> FALSE, now |-> 0, rems |-> <<>>, active |-> <<>>, completed |-> <<>>]

\* A file that some other program, or a stopped write, left behind.
NotAnObject ==
    [obj |-> FALSE, id |-> 0, task |-> "", due_time |-> JNull, created_at |-> JNull,
     status |-> "", completed_at |-> JNull]
NullDueTimeObject ==
    [obj |-> TRUE, id |-> 1, task |-> "milk", due_time |-> JNull,
     created_at |-> isoformat(0), status |-> STATUS_PENDING, completed_at |-> JNull]
BadTimestampObject ==
    [obj |-> TRUE, id |-> 1, task |-> "milk", due_time |-> NotIso,
     created_at |-> isoformat(0), status |-> STATUS_PENDING, completed_at |-> JNull]
EmptyCompletedAtObject ==
    [obj |-> TRUE, id |-> 1, task |-> "milk", due_time |-> isoformat(TicksPerSecond),
     created_at |-> isoformat(0), status |-> STATUS_COMPLETED,
     completed_at |-> JEmptyStr]
InitialFiles ==
    { AbsentFile,
      PartialDump(<<>>),
      [exists |-> TRUE, complete |-> TRUE, shape |-> "scalar", items |-> <<>>],
      [exists |-> TRUE, complete |-> TRUE, shape |-> "no_elements", items |-> <<>>],
      [exists |-> TRUE, complete |-> TRUE, shape |-> "str_elements", items |-> <<>>],
      [exists |-> TRUE, complete |-> TRUE, shape |-> "array",
       items |-> <<EmptyCompletedAtObject>>],
      [exists |-> TRUE, complete |-> TRUE, shape |-> "array", items |-> <<NotAnObject>>],
      [exists |-> TRUE, complete |-> TRUE, shape |-> "array",
       items |-> <<BadTimestampObject>>],
      [exists |-> TRUE, complete |-> TRUE, shape |-> "array",
       items |-> <<NullDueTimeObject>>] }

Init ==
    /\ clock = 0
    /\ disk \in InitialFiles
    /\ reminders = <<>>
    /\ loaded = FALSE
    /\ pc = "rerun"
    /\ run = NoRun
    /\ session = 0
    /\ cmds = 0
    /\ crossed = 0
    /\ toasted = 0
    /\ saveLog = NoSave
    /\ loadLog = NoLoad
    /\ writeFailed = FALSE
    /\ faults = 0
    /\ lastAdd = NoAdd
    /\ lastPass = NoPass
    /\ lastCmd = NoCmd
    /\ rendered = NoDisplay

\* The widget events the page offers: a checkbox and a button per listed
\* reminder (lines 190, 210, 232, 252), or none (the timed refresh).
Commands ==
    {NoCmd}
    \cup {[kind |-> kd, id |-> reminders[k].id] :
            kd \in {"complete", "dismiss"},
            k \in {pending_due_reminders(reminders)[j] :
                      j \in 1..Len(pending_due_reminders(reminders))}}
    \cup {[kind |-> kd, id |-> reminders[k].id] :
            kd \in {"uncomplete", "dismiss_completed"},
            k \in {completed_reminders_list(reminders)[j] :
                      j \in 1..Len(completed_reminders_list(reminders))}}

\* Lines 103-105: the collection the run works on.
SessionLoad(rd) ==
    IF loaded THEN [reminders |-> reminders, error |-> FALSE, raised |-> "none"]
    ELSE load_reminders_from_file(disk, rd)

LoadLogged(ld) ==
    IF loaded THEN NoLoad
    ELSE [outcome |-> IF ld.raised # "none" THEN "crash"
                      ELSE IF ld.error THEN "error" ELSE "ok",
          file |-> disk]

\* A handler that changes the collection and does not call
\* save_reminders_to_file.
CommitWithoutSave(mem, w, nextpc, nextrun) ==
    /\ w = "ok"
    /\ UNCHANGED <<disk, faults, writeFailed>>
    /\ saveLog' = NoSave
    /\ reminders' = mem
    /\ loaded' = TRUE
    /\ pc' = nextpc
    /\ run' = nextrun

\* A step that changed the collection to mem and saved it (w: what the
\* file system does), then goes to nextpc with locals nextrun.
Commit(mem, w, nextpc, nextrun) ==
    LET s == save_reminders_to_file(disk, mem, w) IN
    /\ w # "ok" => faults < MaxFaults
    /\ faults' = IF w # "ok" THEN faults + 1 ELSE faults
    /\ disk' = s.disk
    /\ saveLog' = [outcome |-> w, before |-> disk, arg |-> mem, error |-> s.error]
    /\ writeFailed' = (writeFailed \/ w # "ok")
    /\ IF w = "killed"
       THEN /\ reminders' = <<>>
            /\ loaded' = FALSE
            /\ pc' = "down"
            /\ run' = NoRun
       ELSE /\ reminders' = mem
            /\ loaded' = TRUE
            /\ pc' = nextpc
            /\ run' = nextrun

\* The run in which the form was submitted with a task (lines 103-132).
\* The form is also on the page of a run that raised after line 117: an
\* exception ends the run, not the session.
AddReminder(task, value, unit, d, w) ==
    LET ld == SessionLoad("ok")
        due == calculate_due_time(clock, value, unit)
        r == new_reminder(NewId(ld.reminders), task, due.due_time, clock + d)
    IN
    /\ pc \in {"idle", "rerun", "crashed"}
    /\ pc = "crashed" => loaded
    /\ task # ""
    /\ ld.raised = "none"
    /\ Len(ld.reminders) < MaxReminders
    /\ clock + d <= MaxClock
    /\ clock' = clock + d
    /\ loadLog' = LoadLogged(ld)
    /\ lastAdd' = [value |-> value, unit |-> unit, before |-> ld.reminders,
                   unitError |-> due.error]
    /\ lastPass' = NoPass
    /\ Commit(Append(ld.reminders, r), w, "rerun", NoRun)
    /\ rendered' = NoDisplay
    /\ UNCHANGED <<session, cmds, crossed, toasted, lastCmd>>

\* A run with no form submission, up to line 156: load if needed, then
\* take the time and build the two lists.  cmd is the widget event that
\* started the run; an event that comes during the sleep of line 268
\* waits for the sleep to return (the script is interrupted only inside
\* st.* calls).  An exception that load does not catch, or one raised by
\* the sorts, ends the run; the page it leaves has none of the lists'
\* widgets, and can be run again with no widget event.
StartPass(cmd, rd) ==
    LET ld == SessionLoad(rd)
        act == sorted_active_reminders(ld.reminders)
        com == sorted_completed_reminders(ld.reminders)
    IN
    /\ pc \in {"idle", "rerun", "crashed"}
    /\ cmd \in Commands
    /\ pc = "crashed" => cmd = NoCmd
    /\ cmd.kind # "none" => cmds < MaxCommands
    /\ rd = "ioerror" => ~loaded /\ disk.exists /\ faults < MaxFaults
    /\ faults' = IF rd = "ioerror" THEN faults + 1 ELSE faults
    /\ cmds' = IF cmd.kind # "none" THEN cmds + 1 ELSE cmds
    /\ loadLog' = LoadLogged(ld)
    /\ IF ld.raised # "none"
       THEN /\ pc' = "crashed"
            /\ UNCHANGED <<reminders, loaded, run>>
       ELSE /\ reminders' = ld.reminders
            /\ loaded' = TRUE
            /\ IF ld.reminders = <<>>
               THEN pc' = "idle" /\ run' = NoRun
               ELSE IF SortException(ld.reminders) # "none"
               THEN pc' = "crashed" /\ run' = NoRun
               ELSE /\ run' = [now |-> clock, active |-> act, completed |-> com,
                               i |-> 1, notes |-> <<>>, cmd |-> cmd]
                    /\ pc' = IF act # <<>> THEN "active"
                             ELSE IF com # <<>> THEN "completed" ELSE "toast"
    /\ lastPass' = IF cmd.kind # "none" THEN NoPass ELSE lastPass
    /\ saveLog' = NoSave
    /\ lastAdd' = NoAdd
    /\ rendered' = NoDisplay
    /\ UNCHANGED <<clock, disk, session, crossed, toasted, writeFailed, lastCmd>>

\* Lines 163 and 175-185: time_left and the time_display of the reminder at
\* position k, drawn after the transition of lines 167-171.
Display(k) ==
    LET time_left == reminders[k].due_time - run.now
        status == IF is_due_now(reminders[k], run.now) THEN STATUS_DUE
                  ELSE reminders[k].status
    IN [time_left |-> time_left,
        time_display |-> IF status \in {STATUS_DUE, STATUS_PENDING}
                         THEN format_timedelta_dhms(time_left) ELSE ""]

\* Lines 162-185 for the reminder the active loop is at.  With a due_time
\* that is None, line 163 raises TypeError and the run ends.
EvaluateReminder(w) ==
    LET k == run.active[run.i] IN
    /\ pc = "active"
    /\ IF reminders[k].due_time = None
       THEN /\ w = "ok"
            /\ pc' = "crashed"
            /\ run' = NoRun
            /\ saveLog' = NoSave
            /\ UNCHANGED <<disk, reminders, loaded, crossed, writeFailed, faults>>
       ELSE IF is_due_now(reminders[k], run.now)
       THEN /\ Commit(mark_due(reminders, k), w, "widgets",
                      [run EXCEPT !.notes = Append(@, reminders[k].task)])
            /\ crossed' = IF w = "killed" THEN crossed ELSE crossed + 1
       ELSE /\ w = "ok"
            /\ pc' = "widgets"
            /\ saveLog' = NoSave
            /\ UNCHANGED <<disk, reminders, loaded, run, crossed, writeFailed, faults>>
    /\ loadLog' = NoLoad
    /\ rendered' = IF w = "killed" \/ reminders[k].due_time = None
                   THEN NoDisplay ELSE Display(k)
    /\ UNCHANGED <<clock, session, cmds, toasted, lastAdd, lastPass, lastCmd>>

\* The widget event a handler of this run has just served, kept for the
\* run its st.rerun() starts; nothing is kept when the process was killed.
Handled(w) == IF w = "killed" THEN NoCmd ELSE run.cmd

\* Where the run goes after the active loop's body for position i.
AfterActive ==
    IF run.i < Len(run.active) THEN "active"
    ELSE IF run.completed # <<>> THEN "completed" ELSE "toast"

NextIndex == [run EXCEPT !.i = IF run.i < Len(run.active) THEN run.i + 1 ELSE 1]

\* Lines 190-215 for the same reminder: its checkbox and its button.
ActiveWidgets(w) ==
    LET k == run.active[run.i]
        r == reminders[k]
    IN
    /\ pc = "widgets"
    /\ IF run.cmd.kind = "complete" /\ run.cmd.id = r.id /\ r.status # STATUS_COMPLETED
       THEN /\ Commit(complete(reminders, k, clock), w, "rerun", NoRun)
            /\ lastCmd' = Handled(w)
       ELSE IF run.cmd.kind = "dismiss" /\ run.cmd.id = r.id
       THEN /\ Commit(dismiss(reminders, k), w, "rerun", NoRun)
            /\ lastCmd' = Handled(w)
       ELSE /\ w = "ok"
            /\ pc' = AfterActive
            /\ run' = NextIndex
            /\ saveLog' = NoSave
            /\ UNCHANGED <<disk, reminders, loaded, writeFailed, faults, lastCmd>>
    /\ rendered' = NoDisplay
    /\ UNCHANGED <<clock, session, cmds, crossed, toasted, loadLog, lastAdd, lastPass>>

\* Lines 223-257 for the reminder the completed loop is at.
CompletedWidgets(w) ==
    LET k == run.completed[run.i]
        r == reminders[k]
    IN
    /\ pc = "completed"
    /\ IF run.cmd.kind = "uncomplete" /\ run.cmd.id = r.id
       THEN /\ Commit(uncomplete(reminders, k), w, "rerun", NoRun)
            /\ lastCmd' = Handled(w)
       ELSE IF run.cmd.kind = "dismiss_completed" /\ run.cmd.id = r.id
       THEN /\ Commit(dismiss_completed(reminders, k), w, "rerun", NoRun)
            /\ lastCmd' = Handled(w)
       ELSE /\ w = "ok"
            /\ pc' = IF run.i < Len(run.completed) THEN "completed" ELSE "toast"
            /\ run' = [run EXCEPT !.i = IF run.i < Len(run.completed)
                                         THEN run.i + 1 ELSE 1]
            /\ saveLog' = NoSave
            /\ UNCHANGED <<disk, reminders, loaded, writeFailed, faults, lastCmd>>
    /\ rendered' = NoDisplay
    /\ UNCHANGED <<clock, session, cmds, crossed, toasted, loadLog, lastAdd, lastPass>>

\* Line 262, once: the toast of the next task of
\* due_notifications_this_cycle.
ShowToast ==
    /\ pc = "toast"
    /\ run.i <= Len(run.notes)
    /\ toasted' = toasted + 1
    /\ run' = [run EXCEPT !.i = @ + 1]
    /\ saveLog' = NoSave
    /\ rendered' = NoDisplay
    /\ UNCHANGED <<clock, disk, reminders, loaded, pc, session, cmds, crossed,
                   loadLog, writeFailed, faults, lastAdd, lastPass, lastCmd>>

\* Lines 264-267, after the last toast: the run goes to sleep while a
\* reminder is pending or due, and ends otherwise.
EndPass ==
    /\ pc = "toast"
    /\ run.i > Len(run.notes)
    /\ toasted' = toasted
    /\ run' = NoRun
    /\ clock' = clock
    /\ pc' = IF active_reminders_exist(reminders) THEN "sleep" ELSE "idle"
    /\ lastPass' = IF run.cmd.kind = "none"
                   THEN [valid |-> TRUE, now |-> run.now, rems |-> reminders,
                         active |-> run.active, completed |-> run.completed]
                   ELSE NoPass
    /\ saveLog' = NoSave
    /\ lastCmd' = NoCmd
    /\ rendered' = NoDisplay
    /\ UNCHANGED <<disk, reminders, loaded, session, cmds, crossed, loadLog,
                   writeFailed, faults, lastAdd>>

\* Lines 268-269: time.sleep(REFRESH_INTERVAL_SECONDS) returns and
\* st.rerun() requests the next run.
Sleep ==
    /\ pc = "sleep"
    /\ clock + REFRESH_INTERVAL_SECONDS * TicksPerSecond <= MaxClock
    /\ clock' = clock + REFRESH_INTERVAL_SECONDS * TicksPerSecond
    /\ pc' = "rerun"
    /\ UNCHANGED <<disk, reminders, loaded, run, session, cmds, crossed, toasted,
                   saveLog, loadLog, writeFailed, faults, lastAdd, lastPass,
                   lastCmd, rendered>>

\* The process stops where it is and a new session starts: the session
\* state is gone, the file stays.  A process stopped in the sleep of line
\* 268 had slept e ticks of it.
Restart(e) ==
    /\ session < MaxSessions
    /\ e > 0 => pc = "sleep"
    /\ clock + e <= MaxClock
    /\ clock' = clock + e
    /\ session' = session + 1
    /\ reminders' = <<>>
    /\ loaded' = FALSE
    /\ pc' = "rerun"
    /\ run' = NoRun
    /\ saveLog' = NoSave
    /\ loadLog' = NoLoad
    /\ writeFailed' = FALSE
    /\ lastAdd' = NoAdd
    /\ lastPass' = NoPass
    /\ lastCmd' = NoCmd
    /\ rendered' = NoDisplay
    /\ UNCHANGED <<disk, cmds, crossed, toasted, faults>>

Next ==
    \/ \E task \in SubmitTasks, value \in 1..MaxValue, unit \in FormUnits,
          d \in 0..1, w \in SaveOutcomes :
            AddReminder(task, value, unit, d, w)
    \/ \E cmd \in Commands, rd \in {"ok", "ioerror"} : StartPass(cmd, rd)
    \/ \E w \in SaveOutcomes : EvaluateReminder(w)
    \/ \E w \in SaveOutcomes : ActiveWidgets(w)
    \/ \E w \in SaveOutcomes : CompletedWidgets(w)
    \/ ShowToast
    \/ EndPass
    \/ Sleep
    \/ \E e \in 0..MaxSleptTicks : Restart(e)

Spec == Init /\ [][Next]_vars

\* The runs of one session whose process is not stopped and whose file
\* system does not fail: what is left of Next when the refresh keeps
\* running.
NextRefresh ==
    \/ \E task \in SubmitTasks, value \in 1..MaxValue, unit \in FormUnits,
          d \in 0..1 :
            AddReminder(task, value, unit, d, "ok")
    \/ \E cmd \in Commands : StartPass(cmd, "ok")
    \/ EvaluateReminder("ok")
    \/ ActiveWidgets("ok")
    \/ CompletedWidgets("ok")
    \/ ShowToast
    \/ EndPass
    \/ Sleep

\* The wall clock is set back to the time of the last full pass, so that
\* the next pass evaluates at the same now (datetime.now() is the local
\* wall clock, which is not monotonic).
ClockSetBack ==
    /\ pc \in {"idle", "rerun", "sleep"}
    /\ lastPass.valid
    /\ clock # lastPass.now
    /\ clock' = lastPass.now
    /\ UNCHANGED <<disk, reminders, loaded, pc, run, session, cmds, crossed,
                   toasted, saveLog, loadLog, writeFailed, faults, lastAdd,
                   lastPass, lastCmd, rendered>>

NextEvaluate == Next \/ ClockSetBack

SpecEvaluate == Init /\ [][NextEvaluate]_vars

\* The form submitted with a larger number in "Remind me in:" (line 113
\* takes any integer from 1 up), so that a reminder added later can be due
\* earlier than one added before it.
AddLongerOffset ==
    \E value \in (MaxValue + 1)..MaxLongValue, unit \in FormUnits :
        AddReminder("milk", value, unit, 0, "ok")

NextOffsets == NextRefresh \/ AddLongerOffset

SpecOffsets == Init /\ [][NextOffsets]_vars

\* format_timedelta_dhms on its own: a delta is drawn, of up to
\* MaxDeltaDays days and MaxDeltaSeconds seconds either way, and formatted.
Deltas ==
    {d * 86400 * TicksPerSecond + t :
        d \in 0..MaxDeltaDays,
        t \in (0 - MaxDeltaSeconds * TicksPerSecond)..(MaxDeltaSeconds * TicksPerSecond)}

InitFormat ==
    /\ clock = 0
    /\ disk = AbsentFile
    /\ reminders = <<>>
    /\ loaded = FALSE
    /\ pc = "rerun"
    /\ run = NoRun
    /\ session = 0
    /\ cmds = 0
    /\ crossed = 0
    /\ toasted = 0
    /\ saveLog = NoSave
    /\ loadLog = NoLoad
    /\ writeFailed = FALSE
    /\ faults = 0
    /\ lastAdd = NoAdd
    /\ lastPass = NoPass
    /\ lastCmd = NoCmd
    /\ \E delta \in Deltas : rendered = [time_left |-> delta, time_display |-> ""]

FormatDelta ==
    /\ rendered.time_display = ""
    /\ rendered' = [rendered EXCEPT
                       !.time_display = format_timedelta_dhms(rendered.time_left)]
    /\ UNCHANGED <<clock, disk, reminders, loaded, pc, run, session, cmds,
                   crossed, toasted, saveLog, loadLog, writeFailed, faults,
                   lastAdd, lastPass, lastCmd>>

NextFormat == FormatDelta

SpecFormat == InitFormat /\ [][NextFormat]_vars

\* The add handler held up between its two readings of the clock, line 18
\* (in calculate_due_time) and line 125 (created_at): the process is
\* stopped for MaxPauseTicks ticks, or the wall clock is stepped forward.
AddAfterPause ==
    \E value \in 1..MaxValue, unit \in FormUnits :
        AddReminder("milk", value, unit, MaxPauseTicks, "ok")

NextPause == NextRefresh \/ AddAfterPause

SpecPause == Init /\ [][NextPause]_vars

\* The script runner at work: a run that was requested by st.rerun()
\* (lines 132, 200, 214, 243, 256, 269) starts, and a run that has started
\* goes on to its next line, the sleep of line 268 returning in its time.
\* A run from the idle page starts only when the user does something,
\* which nothing promises.
RefreshStep ==
    \/ \E cmd \in Commands : pc = "rerun" /\ StartPass(cmd, "ok")
    \/ EvaluateReminder("ok")
    \/ ActiveWidgets("ok")
    \/ CompletedWidgets("ok")
    \/ ShowToast
    \/ EndPass
    \/ Sleep

SpecRefresh == Init /\ [][NextRefresh]_vars /\ WF_vars(RefreshStep)

\* ================================================================ claims

\* C1: in every reachable state each reminder has completed_at present if
\* and only if its status is Completed, also after a dismiss of a Completed
\* reminder.
CompletedAtIffCompleted ==
    \A i \in 1..Len(reminders) :
        (reminders[i].completed_at # None) <=> (reminders[i].status = STATUS_COMPLETED)

\* C2: Dismissed is terminal.  While the session runs, no step of a run
\* changes any field of a reminder whose status is Dismissed, and no list
\* the run works on holds a Dismissed reminder.
NoDismissedListed ==
    /\ \A j \in 1..Len(run.active) : reminders[run.active[j]].status # STATUS_DISMISSED
    /\ \A j \in 1..Len(run.completed) :
          reminders[run.completed[j]].status # STATUS_DISMISSED

DismissedIsTerminal ==
    [][ (session' = session /\ pc' # "down") =>
          /\ \A i \in 1..Len(reminders) :
                reminders[i].status = STATUS_DISMISSED =>
                    i <= Len(reminders') /\ reminders'[i] = reminders[i]
          /\ NoDismissedListed' ]_vars

\* C2's case: a run handles a widget event of one reminder while another
\* reminder of the collection is Dismissed.
DismissedWitness ==
    /\ pc = "widgets"
    /\ run.cmd.kind # "none"
    /\ \E i \in 1..Len(reminders) : reminders[i].status = STATUS_DISMISSED

\* C3: every pending -> due transition has its "is due!" toast shown exactly
\* once: between runs, as many toasts were shown as transitions were made.
DueNotifiedExactlyOnce ==
    pc \in {"idle", "rerun", "sleep"} => toasted = crossed

\* C4: every mutating operation saves the whole collection before it ends:
\* while no read or write of the file has failed, a load of the file gives
\* the collection in memory, and right after a save the file is the dump
\* of it.
SavedAfterEveryMutation ==
    (loaded /\ faults = 0) =>
        /\ load_reminders_from_file(disk, "ok").reminders = reminders
        /\ saveLog.outcome = "ok" => disk = json_dump(reminders)

\* C4's case: after a restart with no failure so far, the loaded collection
\* holds a reminder whose transition to Completed was saved.
SavedWitness ==
    /\ session = 1 /\ loaded /\ faults = 0
    /\ \E i \in 1..Len(reminders) : reminders[i].status = STATUS_COMPLETED

\* C5: save overwrites the file atomically: after a call of save, however
\* it ended, the file is the whole previous file or the whole new dump.
SaveIsAtomic ==
    saveLog.outcome # "none" =>
        disk \in {saveLog.before, json_dump(saveLog.arg)}

\* C6: saving a collection and loading it gives the same collection, field
\* for field and in the same order, with completed_at absent or set.
SaveLoadRoundTrip ==
    LET l == load_reminders_from_file(
                 save_reminders_to_file(disk, reminders, "ok").disk, "ok")
    IN l.reminders = reminders /\ ~l.error /\ l.raised = "none"

\* C6's case: a new session has just loaded a collection with a reminder
\* whose completed_at is absent and one whose completed_at has a fraction
\* of a second.
RoundTripWitness ==
    /\ session = 1 /\ loadLog.outcome = "ok"
    /\ \E i, j \in 1..Len(reminders) :
          /\ reminders[i].completed_at = None
          /\ reminders[j].completed_at # None
          /\ reminders[j].completed_at % TicksPerSecond # 0

\* ISO-8601 text.
IsIso(j) == j.t = "str" /\ j.valid

\* The file is an array of objects whose due_time and created_at are ISO
\* text and whose completed_at is null or ISO text.
WellFormedFile(d) ==
    /\ d.complete
    /\ d.shape = "array"
    /\ \A i \in 1..Len(d.items) :
          /\ d.items[i].obj
          /\ IsIso(d.items[i].due_time)
          /\ IsIso(d.items[i].created_at)
          /\ d.items[i].completed_at = JNull \/ IsIso(d.items[i].completed_at)

\* C7: load never crashes: with no file it gives an empty sequence and no
\* error, and with a malformed or unreadable file it signals an error and
\* gives an empty sequence.

LoadNeverCrashes ==
    /\ loadLog.outcome # "crash"
    /\ loadLog.outcome = "ok" => (~loadLog.file.exists \/ WellFormedFile(loadLog.file))

\* C8: a save that fails with a write error is reported, the process goes
\* on, the collection in memory keeps the change that was being saved, and
\* the next save that succeeds makes the file the dump of the collection.
WriteFailureKeepsMemory ==
    /\ saveLog.outcome \in {"open_fails", "write_fails"} =>
          /\ saveLog.error
          /\ pc \notin {"down", "crashed"}
          /\ loaded
          /\ reminders = saveLog.arg
    /\ (saveLog.outcome = "ok" /\ writeFailed) => disk = json_dump(reminders)

\* C8's case: a save has just succeeded in a session in which an earlier
\* save failed.
ReconciledWitness ==
    saveLog.outcome = "ok" /\ writeFailed

\* C10: a pass with no widget event that runs at the same now as the full
\* pass before it, nothing having happened in between, changes no reminder,
\* queues no "is due!" toast and works on the same two lists.
EvaluateIdempotent ==
    (pc = "toast" /\ run.cmd.kind = "none" /\ lastPass.valid /\ lastPass.now = run.now) =>
        /\ reminders = lastPass.rems
        /\ run.notes = <<>>
        /\ run.active = lastPass.active
        /\ run.completed = lastPass.completed

\* C10's case: the second pass at the same now has gone through a
\* collection with a reminder that is Due and overdue.
IdempotentWitness ==
    /\ pc = "toast" /\ run.cmd.kind = "none"
    /\ lastPass.valid /\ lastPass.now = run.now
    /\ \E i \in 1..Len(reminders) :
          reminders[i].status = STATUS_DUE /\ reminders[i].due_time <= run.now

\* The key the completed list is sorted by (line 156).
CompletedKey(r) == IF Truthy(r.completed_at) THEN r.completed_at ELSE r.created_at

Listed(list) == {list[j] : j \in 1..Len(list)}

\* C11: the two lists a run works on partition the collection by status.
\* The active list holds each Pending or Due reminder once and no other,
\* ascending by due_time; the completed list holds each Completed reminder
\* once and no other, descending by completed_at (created_at when absent);
\* no Dismissed reminder is in a list and no reminder is in both.
ViewPartitionsByStatus ==
    pc \in {"active", "widgets", "completed", "toast"} =>
        /\ Listed(run.active) =
              {i \in 1..Len(reminders) :
                  reminders[i].status \in {STATUS_PENDING, STATUS_DUE}}
        /\ Listed(run.completed) =
              {i \in 1..Len(reminders) : reminders[i].status = STATUS_COMPLETED}
        /\ Cardinality(Listed(run.active)) = Len(run.active)
        /\ Cardinality(Listed(run.completed)) = Len(run.completed)
        /\ \A j \in 1..Len(run.active), k \in 1..Len(run.active) :
              j < k => reminders[run.active[j]].due_time
                          <= reminders[run.active[k]].due_time
        /\ \A j \in 1..Len(run.completed), k \in 1..Len(run.completed) :
              j < k => CompletedKey(reminders[run.completed[j]])
                          >= CompletedKey(reminders[run.completed[k]])
        /\ Listed(run.active) \cap Listed(run.completed) = {}
        /\ \A i \in 1..Len(reminders) :
              reminders[i].status = STATUS_DISMISSED =>
                  i \notin Listed(run.active) \cup Listed(run.completed)

\* C11's case: a run lists two active reminders in the reverse of their
\* insertion order, the one added later being due strictly earlier.
ActiveReorderedWitness ==
    /\ pc = "toast"
    /\ run.active = <<2, 1>>
    /\ reminders[2].due_time < reminders[1].due_time

\* A step in which the uncomplete handler (lines 238-243) has served its
\* checkbox: the reminder is Pending with no completed_at.
UncompleteYieldsPending ==
    (pc = "completed" /\ run.cmd.kind = "uncomplete" /\ pc' = "rerun"
        /\ session' = session) =>
        \A i \in 1..Len(reminders) :
            reminders[i].id = run.cmd.id =>
                /\ reminders'[i].status = STATUS_PENDING
                /\ reminders'[i].completed_at = None

\* The step that ends the first pass after an uncomplete: if that pass's
\* current time had reached the reminder's due_time, it is Pending no more.
OverdueAfterUncompleteEvaluated ==
    (lastCmd.kind = "uncomplete" /\ run # NoRun /\ run' = NoRun
        /\ pc' \in {"idle", "rerun", "sleep"} /\ session' = session) =>
        \A i \in 1..Len(reminders) :
            (reminders[i].id = lastCmd.id /\ reminders[i].due_time <= run.now) =>
                reminders'[i].status # STATUS_PENDING

\* C12: uncomplete on a Completed reminder always yields status Pending
\* with completed_at cleared, whatever it was completed from and whether or
\* not due_time has passed; and if due_time has passed, the next pass
\* moves it to Due.
UncompleteReactivates ==
    [][UncompleteYieldsPending /\ OverdueAfterUncompleteEvaluated]_vars

\* The first half of C12 alone.
UncompleteClears == [][UncompleteYieldsPending]_vars

\* The seconds the components of a text stand for.
RECURSIVE PartsSeconds(_)
PartsSeconds(parts) ==
    IF parts = <<>> THEN 0
    ELSE parts[1].n * SecondsPerUnit(CASE parts[1].letter = "d" -> "days"
                                       [] parts[1].letter = "h" -> "hours"
                                       [] parts[1].letter = "m" -> "minutes"
                                       [] OTHER -> "seconds")
         + PartsSeconds(Tail(parts))

\* C13: over whole-second deltas the text is "Due NOW!" for 0 seconds,
\* "Overdue by 5s!" for -5, "1h 1m 1s" for 3661 and "1m 30s" for 90, and for
\* every positive delta the components shown add up to the delta.
FormatShowsWholeDelta ==
    LET delta == rendered.time_left
        S(n) == n * TicksPerSecond
    IN rendered.time_display # "" =>
        /\ delta = S(0) => rendered.time_display = "Due NOW!"
        /\ delta = S(0 - 5) => rendered.time_display = "Overdue by 5s!"
        /\ delta = S(3661) => rendered.time_display = "1h 1m 1s"
        /\ delta = S(90) => rendered.time_display = "1m 30s"
        /\ (delta > 0 /\ delta % TicksPerSecond = 0) =>
              /\ rendered.time_display = join(remaining_parts(delta))
              /\ S(PartsSeconds(remaining_parts(delta))) = delta

\* C14: in every reachable state, every reminder the add handler created
\* has due_time >= created_at.
DueNotBeforeCreated ==
    \A i \in 1..Len(reminders) :
        (reminders[i].due_time # None /\ reminders[i].created_at # None) =>
            reminders[i].due_time >= reminders[i].created_at

\* What the spec calls immutable in a reminder.
CreatedForm(r) ==
    [id |-> r.id, task |-> r.task, due_time |-> r.due_time, created_at |-> r.created_at]

\* C15: no operation removes a reminder or changes its id, task, due_time
\* or created_at.  Over every step of a session that has its collection in
\* memory, the collection keeps every reminder at its place with these
\* fields as they were, and grows by at most one reminder added at the end
\* with an id of its own; so it is the added reminders in insertion order.
OnlyStatusAndCompletedAtChange ==
    [][ (loaded /\ loaded' /\ session' = session) =>
          /\ Len(reminders') \in {Len(reminders), Len(reminders) + 1}
          /\ \A i \in 1..Len(reminders) :
                CreatedForm(reminders'[i]) = CreatedForm(reminders[i])
          /\ \A i \in 1..Len(reminders) :
                Len(reminders') > Len(reminders) =>
                    reminders'[Len(reminders')].id # reminders[i].id ]_vars

\* C15's case: both reminders of a collection have been through handlers,
\* one dismissed from the active list and the other completed.
FrameWitness ==
    /\ loaded /\ Len(reminders) = 2
    /\ reminders[1].status = STATUS_DISMISSED
    /\ reminders[2].status = STATUS_COMPLETED
    /\ reminders[1].completed_at = None

\* C16: a reminder is never Due early.  In every step of a session a
\* reminder becomes Due only from Pending, in the active loop of a pass
\* whose current time has reached its due_time; a Pending reminder whose
\* due_time is after the pass's current time is Pending after its
\* evaluation; and no reminder is Due before the clock reaches its due_time.
NeverDueEarly ==
    [][ /\ session' = session =>
              \A i \in 1..Len(reminders) :
                  (i <= Len(reminders') /\ reminders'[i].status = STATUS_DUE
                      /\ reminders[i].status # STATUS_DUE) =>
                      /\ reminders[i].status = STATUS_PENDING
                      /\ pc = "active" /\ run.active[run.i] = i
                      /\ reminders[i].due_time <= run.now
        /\ (pc = "active" /\ pc' = "widgets") =>
              LET k == run.active[run.i] IN
              (reminders[k].status = STATUS_PENDING /\ reminders[k].due_time > run.now)
                  => reminders'[k].status = STATUS_PENDING
        /\ \A i \in 1..Len(reminders') :
              reminders'[i].status = STATUS_DUE => reminders'[i].due_time <= clock' ]_vars

\* C16's case: a pass has made one reminder Due and has left another, whose
\* due_time is after the pass's current time, Pending.
DueOnTimeWitness ==
    /\ pc = "toast" /\ run.notes # <<>>
    /\ \E i, j \in 1..Len(reminders) :
          /\ reminders[i].status = STATUS_DUE /\ reminders[i].due_time <= run.now
          /\ reminders[j].status = STATUS_PENDING /\ reminders[j].due_time > run.now

\* C17: each pass is complete.  At the step that ends a pass, whether at
\* its last line or in a handler that served a complete, dismiss or
\* uncomplete event, no reminder is left Pending whose due_time the pass's
\* current time had reached.
PassIsComplete ==
    [][ (run # NoRun /\ run' = NoRun /\ pc' \in {"idle", "rerun", "sleep"}
            /\ session' = session) =>
          \A i \in 1..Len(reminders) :
              (reminders[i].status = STATUS_PENDING
                  /\ reminders[i].due_time <= run.now) =>
                  reminders'[i].status # STATUS_PENDING ]_vars

\* Passes that run to their last line are complete.
FullPassIsComplete ==
    pc = "toast" =>
        \A i \in 1..Len(reminders) :
            reminders[i].status = STATUS_PENDING => reminders[i].due_time > run.now

\* The last clock value from which the sleep of line 268 still fits below
\* MaxClock: a reminder due by then is reached by a pass of the model.
Horizon == MaxClock - REFRESH_INTERVAL_SECONDS * TicksPerSecond + 1

StillPending(i) ==
    /\ i <= Len(reminders)
    /\ reminders[i].status = STATUS_PENDING
    /\ IsDatetime(reminders[i].due_time)
    /\ reminders[i].due_time <= Horizon

\* The reminder is Pending no more, or the collection in memory does not
\* hold it.
Settled(i) ==
    \/ i > Len(reminders)
    \/ reminders[i].status # STATUS_PENDING

\* No page is left with no run to come, its last run ended or raised,
\* while a reminder of the session is Pending or Due.
RefreshRescheduled ==
    (pc \in {"idle", "crashed"} /\ loaded) =>
        \A i \in 1..Len(reminders) :
            reminders[i].status \notin {STATUS_PENDING, STATUS_DUE}

\* C18: while the script runner keeps running requested runs and the sleep
\* lets time advance, every Pending reminder eventually becomes Due,
\* Completed or Dismissed, and a rerun is requested after every pass that
\* ends with a Pending or Due reminder.
PendingEventuallySettled ==
    /\ []RefreshRescheduled
    /\ \A i \in 1..MaxReminders : StillPending(i) ~> Settled(i)

\* The liveness half of C18 alone.
PendingLeadsToSettled ==
    \A i \in 1..MaxReminders : StillPending(i) ~> Settled(i)

\* C19: the reminder the add handler has just created, from a value and a
\* unit the form offers, has due_time = created_at + exactly value units,
\* also when the clock advanced while the handler ran.
DueIsCreatedPlusOffset ==
    (lastAdd.unit \in Units /\ pc # "down") =>
        LET r == reminders[Len(reminders)] IN
        /\ Len(reminders) = Len(lastAdd.before) + 1
        /\ r.due_time = r.created_at
                + lastAdd.value * SecondsPerUnit(lastAdd.unit) * TicksPerSecond

====
